---------------------------- MODULE Spec2Model ----------------------------
(***************************************************************************)
(* A model of the frontend-calendar application: the page shell (App.tsx), *)
(* the calendar component (components/Calendar.tsx) and the event badge.   *)
(*                                                                         *)
(* Strings the code takes apart (dates "YYYY-MM-DD", times "HH:mm", titles,*)
(* colours) are sequences of one-character strings, so that format, parse, *)
(* split and trim are computed and not assumed.  A Dayjs value is the      *)
(* record [y, m, d] of its local calendar date; the code never reads the   *)
(* time of day of one (every comparison is by day or by month, every       *)
(* format is a date format).                                               *)
(***************************************************************************)
EXTENDS Integers, Sequences, FiniteSets, TLC

VARIABLES
    activePage,     \* App: useState("Calendar")
    now,            \* the host clock's local date, what dayjs() returns
    currentMonth,   \* Calendar: useState(dayjs())
    viewMode,       \* Calendar: useState<ViewMode>("monthly")
    events,         \* Calendar: useState<EventItem[]>(eventsData)
    showModal,      \* Calendar: useState(false)
    selectedDate,   \* Calendar: useState<string>(today)
    form,           \* Calendar: useState({title, date, time, duration})
    alertShown,     \* the text the last handler passed to alert(), "" if none
    badge,          \* EventBadge rendered on its own: the props color, conflicted
    dataset         \* the array imported from events.json, as it is in memory

calVars == <<currentMonth, viewMode, events, showModal, selectedDate, form>>
vars == <<activePage, now, currentMonth, viewMode, events, showModal,
          selectedDate, form, alertShown, badge, dataset>>

-----------------------------------------------------------------------------
(* Bounds of the model.                                                    *)

\* how many events the Add-Event form may append to the dataset
MaxAdded == 1
\* the colours given to a badge rendered on its own: every string of up to
\* this many characters (and the palette, and a few longer ones)
MaxColorLen == 4
MaxSameDay == 6
\* how many extra events an arbitrary starting list holds beyond the dataset
MaxExtra == 3
\* the periods and selections explored lie within this many days of `now`
Horizon == 45
\* the anchor dates of the grids: every day of Years years from FirstYear on
FirstYear == 2024
Years == 3

-----------------------------------------------------------------------------
(* Characters and numbers.                                                 *)

DigitChars == <<"0", "1", "2", "3", "4", "5", "6", "7", "8", "9">>

IsDigit(c) == \E i \in 1..10 : DigitChars[i] = c

DigitVal(c) == (CHOOSE i \in 1..10 : DigitChars[i] = c) - 1

\* String(n).padStart(2, "0") for 0 <= n <= 99
Pad2(n) == <<DigitChars[(n \div 10) + 1], DigitChars[(n % 10) + 1]>>

\* the four digits of a year 0..9999
Pad4(n) == <<DigitChars[(n \div 1000) + 1], DigitChars[((n \div 100) % 10) + 1],
             DigitChars[((n \div 10) % 10) + 1], DigitChars[(n % 10) + 1]>>

\* the value of a string of decimal digits
RECURSIVE NumberOf(_)
NumberOf(s) ==
    IF s = <<>> THEN 0
    ELSE NumberOf(SubSeq(s, 1, Len(s) - 1)) * 10 + DigitVal(s[Len(s)])

Min(a, b) == IF a < b THEN a ELSE b

-----------------------------------------------------------------------------
(* The date arithmetic the calendar takes from dayjs.                      *)

IsLeap(y) == (y % 4 = 0 /\ y % 100 # 0) \/ y % 400 = 0

DaysInMonth(y, m) ==
    IF m = 2 THEN (IF IsLeap(y) THEN 29 ELSE 28)
    ELSE IF m \in {4, 6, 9, 11} THEN 30 ELSE 31

\* new Date(y, m - 1, d): a day of month outside the month rolls into the
\* neighbouring months, a month outside 1..12 into the neighbouring years
RECURSIVE MakeDate(_, _, _)
MakeDate(y, m, d) ==
    IF m < 1 THEN MakeDate(y - 1, m + 12, d)
    ELSE IF m > 12 THEN MakeDate(y + 1, m - 12, d)
    ELSE IF d < 1 THEN
        (IF m = 1 THEN MakeDate(y - 1, 12, d + 31)
         ELSE MakeDate(y, m - 1, d + DaysInMonth(y, m - 1)))
    ELSE IF d > DaysInMonth(y, m) THEN
        (IF m = 12 THEN MakeDate(y + 1, 1, d - 31)
         ELSE MakeDate(y, m + 1, d - DaysInMonth(y, m)))
    ELSE [y |-> y, m |-> m, d |-> d]

\* days from 0001-01-01 to the date (the epoch value of a Date, in days)
DayNumber(t) ==
    LET py == t.y - 1
        before == <<0, 31, 59, 90, 120, 151, 181, 212, 243, 273, 304, 334>>[t.m]
                  + (IF t.m > 2 /\ IsLeap(t.y) THEN 1 ELSE 0)
    IN  365 * py + (py \div 4) - (py \div 100) + (py \div 400)
        + before + (t.d - 1)

\* Dayjs.day(): 0 = Sunday .. 6 = Saturday
Weekday(t) == (DayNumber(t) + 1) % 7

\* a.isBefore(b), by day
IsBefore(a, b) ==
    \/ a.y < b.y
    \/ a.y = b.y /\ a.m < b.m
    \/ a.y = b.y /\ a.m = b.m /\ a.d < b.d

\* a.isSame(b, "day")
IsSameDay(a, b) == a.y = b.y /\ a.m = b.m /\ a.d = b.d

\* a.isSame(b, "month")
IsSameMonth(a, b) == a.y = b.y /\ a.m = b.m

\* the day moved by n, a move back stopping at the first of the month
AddDaysStoppingAtFirst(t, n) ==
    IF n < 0 /\ t.d + n < 1 THEN [y |-> t.y, m |-> t.m, d |-> 1]
    ELSE MakeDate(t.y, t.m, t.d + n)

\* t.add(n, "day"), t.subtract(-n, "day")
AddDays(t, n) == MakeDate(t.y, t.m, t.d + n)

\* t.add(n, "week")
AddWeeks(t, n) == AddDays(t, 7 * n)

\* the month moved with the day of month kept, the way Date.setMonth rolls a
\* day the target month lacks into the month after it
AddMonthsUnclamped(t, n) == MakeDate(t.y, t.m + n, t.d)

\* t.add(n, "month"): the day of month is clamped to the target month's length
AddMonths(t, n) ==
    LET first == MakeDate(t.y, t.m + n, 1)
    IN  [y |-> first.y, m |-> first.m,
         d |-> Min(t.d, DaysInMonth(first.y, first.m))]

\* t.startOf("month"), t.endOf("month")
StartOfMonth(t) == [y |-> t.y, m |-> t.m, d |-> 1]
EndOfMonth(t) == [y |-> t.y, m |-> t.m, d |-> DaysInMonth(t.y, t.m)]

\* t.startOf("week"), t.endOf("week"): weeks run Sunday..Saturday
StartOfWeek(t) == AddDays(t, 0 - Weekday(t))
EndOfWeek(t) == AddDays(t, 6 - Weekday(t))

\* t.format("YYYY-MM-DD")
FormatDate(t) == Pad4(t.y) \o <<"-">> \o Pad2(t.m) \o <<"-">> \o Pad2(t.d)

\* does s read YYYY-MM-DD
IsDateString(s) ==
    /\ Len(s) = 10
    /\ s[5] = "-" /\ s[8] = "-"
    /\ \A i \in {1, 2, 3, 4, 6, 7, 9, 10} : IsDigit(s[i])

\* dayjs(s) for a string YYYY-MM-DD: new Date(y, m - 1, d)
ParseDate(s) ==
    MakeDate(NumberOf(SubSeq(s, 1, 4)), NumberOf(SubSeq(s, 6, 7)),
             NumberOf(SubSeq(s, 9, 10)))


-----------------------------------------------------------------------------
(* Strings.                                                                *)

IsSpace(c) == c \in {" ", "\t", "\n"}

\* s with its leading white space removed
RECURSIVE TrimStart(_)
TrimStart(s) ==
    IF s # <<>> /\ IsSpace(s[1]) THEN TrimStart(Tail(s)) ELSE s

\* s with its trailing white space removed
RECURSIVE TrimEnd(_)
TrimEnd(s) ==
    IF s # <<>> /\ IsSpace(s[Len(s)]) THEN TrimEnd(SubSeq(s, 1, Len(s) - 1))
    ELSE s

\* String.prototype.trim
Trim(s) == TrimEnd(TrimStart(s))

\* s.split(sep) for a one-character separator
RECURSIVE Split(_, _)
Split(s, sep) ==
    IF \A i \in 1..Len(s) : s[i] # sep THEN <<s>>
    ELSE LET k == CHOOSE i \in 1..Len(s) :
                     s[i] = sep /\ \A j \in 1..(i - 1) : s[j] # sep
         IN  <<SubSeq(s, 1, k - 1)>> \o Split(SubSeq(s, k + 1, Len(s)), sep)

-----------------------------------------------------------------------------
(* The event dataset and the constants of the calendar.                    *)

ViewModes == {"monthly", "weekly", "timeline"}

\* the colour palette, by index
COLORS ==
    << <<"#","f","f","b","6","b","6">>, <<"#","b","6","e","3","f","f">>,
       <<"#","c","0","f","1","d","8">>, <<"#","f","f","e","1","b","6">>,
       <<"#","d","8","c","7","f","f">>, <<"#","f","f","d","6","f","2">> >>

\* the props of a badge of the first palette colour, not conflicted
PlainBadge == [color |-> COLORS[1], conflicted |-> FALSE]

Event(title, date, time, duration) ==
    [title |-> title, date |-> date, time |-> time, duration |-> duration]

\* data/events.json
eventsData ==
    << Event(<<"D","e","s","i","g","n"," ","S","y","n","c">>,
             <<"2","0","2","4","-","0","4","-","0","9">>,
             <<"1","0",":","0","0">>, 60),
       Event(<<"P","r","o","d","u","c","t"," ","R","e","v","i","e","w">>,
             <<"2","0","2","4","-","0","4","-","0","9">>,
             <<"1","0",":","3","0">>, 45),
       Event(<<"1",":","1">>,
             <<"2","0","2","4","-","0","4","-","1","2">>,
             <<"1","4",":","0","0">>, 30),
       Event(<<"T","e","a","m"," ","L","u","n","c","h">>,
             <<"2","0","2","4","-","0","4","-","1","8">>,
             <<"1","2",":","0","0">>, 90),
       Event(<<"R","e","l","e","a","s","e"," ","R","e","t","r","o">>,
             <<"2","0","2","4","-","0","4","-","2","3">>,
             <<"1","6",":","0","0">>, 60) >>

-----------------------------------------------------------------------------
(* The pure functions of Calendar.tsx.                                     *)

\* the loop with day.isBefore(endDate) as its only test
RECURSIVE GridFromBefore(_, _)
GridFromBefore(day, endDate) ==
    IF IsBefore(day, endDate)
    THEN <<day>> \o GridFromBefore(AddDays(day, 1), endDate)
    ELSE <<>>

\* the while loop of buildMonthGrid, from `day` on
RECURSIVE GridFrom(_, _)
GridFrom(day, endDate) ==
    IF IsBefore(day, endDate) \/ IsSameDay(day, endDate)
    THEN <<day>> \o GridFrom(AddDays(day, 1), endDate)
    ELSE <<>>

buildMonthGrid(current) ==
    LET startOfMonth == StartOfMonth(current)
        endOfMonth == EndOfMonth(current)
        startDate == StartOfWeek(startOfMonth)
        endDate == EndOfWeek(endOfMonth)
    IN  GridFrom(startDate, endDate)

\* seven days counted from the anchor itself
buildWeekGridFromAnchor(current) ==
    [i \in 1..7 |-> AddDays(current, i - 1)]

buildWeekGrid(current) ==
    LET start == StartOfWeek(current)
    IN  [i \in 1..7 |-> AddDays(start, i - 1)]

\* one step of the reduce of groupEventsByDate
\* the reducer's step that puts the event in front of its date's list
GroupStepPrepending(acc, ev) ==
    IF ev.date \in DOMAIN acc
    THEN [acc EXCEPT ![ev.date] = <<ev>> \o acc[ev.date]]
    ELSE acc @@ (ev.date :> <<ev>>)

\* the reducer's step that starts the group of a date anew every time
GroupStepOverwriting(acc, ev) ==
    IF ev.date \in DOMAIN acc
    THEN [acc EXCEPT ![ev.date] = <<ev>>]
    ELSE acc @@ (ev.date :> <<ev>>)

\* acc[ev.date] = acc[ev.date] ? [...acc[ev.date], ev] : [ev]
GroupStep(acc, ev) ==
    IF ev.date \in DOMAIN acc
    THEN [acc EXCEPT ![ev.date] = Append(acc[ev.date], ev)]
    ELSE acc @@ (ev.date :> <<ev>>)

RECURSIVE GroupFold(_, _)
GroupFold(acc, evs) ==
    IF evs = <<>> THEN acc ELSE GroupFold(GroupStep(acc, Head(evs)), Tail(evs))

\* a Record<string, EventItem[]>: a function on the dates that occur
groupEventsByDate(evs) == GroupFold(<<>>, evs)

\* toMinutes: the hours and minutes of "HH:mm"
toMinutes(time) ==
    LET parts == Split(time, ":")
    IN  NumberOf(parts[1]) * 60 + NumberOf(parts[2])

\* the overlap test with the end points included
OverlapClosed(start, end, oStart, oEnd) == start <= oEnd /\ oStart <= end

\* the overlap test of detectConflicts on two intervals
Overlap(start, end, oStart, oEnd) == start < oEnd /\ oStart < end

\* the callback without the test j === idx
ConflictsWithAny(evs, idx, j) ==
    toMinutes(evs[idx].time) < toMinutes(evs[j].time) + evs[j].duration
    /\ toMinutes(evs[j].time) < toMinutes(evs[idx].time) + evs[idx].duration

\* the callback of events.some for the pair (idx, j)
ConflictsWith(evs, idx, j) ==
    IF j = idx THEN FALSE
    ELSE LET start == toMinutes(evs[idx].time)
             end == start + evs[idx].duration
             oStart == toMinutes(evs[j].time)
             oEnd == oStart + evs[j].duration
         IN  Overlap(start, end, oStart, oEnd)

\* events.some(...) that looks only at the events after idx
SomeAfter(evs, idx, j) ==
    \E k \in (idx + 1)..Len(evs) : ConflictsWith(evs, idx, k)

\* events.some(...), scanning from index j
RECURSIVE SomeFrom(_, _, _)
SomeFrom(evs, idx, j) ==
    IF j > Len(evs) THEN FALSE
    ELSE IF ConflictsWith(evs, idx, j) THEN TRUE
    ELSE SomeFrom(evs, idx, j + 1)

\* the flags taken from a comparison with the last event of the list only
detectConflictsWithLast(evs) ==
    [idx \in 1..Len(evs) |->
        idx # Len(evs) /\ ConflictsWith(evs, idx, Len(evs))]

detectConflicts(evs) == [idx \in 1..Len(evs) |-> SomeFrom(evs, idx, 1)]

-----------------------------------------------------------------------------
(* What one render of the calendar computes from the state.                *)

\* const today = dayjs().format("YYYY-MM-DD")
today == FormatDate(now)

\* const days: the grid of the view mode
days ==
    IF viewMode = "weekly" THEN buildWeekGrid(currentMonth)
    ELSE buildMonthGrid(currentMonth)

\* useMemo(() => groupEventsByDate(events), [events])
eventsByDate == groupEventsByDate(events)

\* every event, whatever its date
DayEventsUngrouped(dateKey) == events

\* eventsByDate[dateKey] || []
DayEventsOf(dateKey) ==
    IF dateKey \in DOMAIN eventsByDate THEN eventsByDate[dateKey] ELSE <<>>

\* the body of days.map: what the cell of `day` shows
Cell(day) ==
    LET dateKey == FormatDate(day)
        dayEvents == DayEventsOf(dateKey)
    IN  [dateKey |-> dateKey,
         inMonth |-> IsSameMonth(day, currentMonth),
         isToday |-> dateKey = today,
         isSelected |-> dateKey = selectedDate,
         dayEvents |-> dayEvents,
         conflicts |-> detectConflicts(dayEvents)]

\* the badges with the last palette colour kept past the sixth event
CellBadgesClamped(dayEvents, conflicts) ==
    [idx \in DOMAIN dayEvents |->
        [title |-> dayEvents[idx].title,
         time |-> dayEvents[idx].time,
         duration |-> dayEvents[idx].duration,
         color |-> COLORS[IF idx > Len(COLORS) THEN Len(COLORS) ELSE idx],
         conflicted |-> conflicts[idx]]]

\* dayEvents.map((ev, idx) => <EventBadge ... />): the props of the badges
\* of a cell.  idx counts from 1 here, so COLORS[idx % COLORS.length] is
\* COLORS[((idx - 1) % Len(COLORS)) + 1]
CellBadges(dayEvents, conflicts) ==
    [idx \in DOMAIN dayEvents |->
        [title |-> dayEvents[idx].title,
         time |-> dayEvents[idx].time,
         duration |-> dayEvents[idx].duration,
         color |-> COLORS[((idx - 1) % Len(COLORS)) + 1],
         conflicted |-> conflicts[idx]]]

\* dayjs(`${ev.date}T${ev.time}`): the local instant, in minutes
TimelineInstant(ev) == DayNumber(ParseDate(ev.date)) * 1440 + toMinutes(ev.time)

\* the comparator of the sort: a.diff(b)
TimelineCompare(a, b) == TimelineInstant(a) - TimelineInstant(b)

\* the insertion that puts ev in front of the elements equal to it
RECURSIVE SortInsertBeforeEqual(_, _)
SortInsertBeforeEqual(sorted, ev) ==
    IF sorted = <<>> THEN <<ev>>
    ELSE IF TimelineCompare(Head(sorted), ev) >= 0 THEN <<ev>> \o sorted
    ELSE <<Head(sorted)>> \o SortInsertBeforeEqual(Tail(sorted), ev)

\* Array.prototype.sort is stable: an element goes behind the elements
\* that do not compare greater than it
RECURSIVE SortInsert(_, _)
SortInsert(sorted, ev) ==
    IF sorted = <<>> THEN <<ev>>
    ELSE IF TimelineCompare(Head(sorted), ev) > 0 THEN <<ev>> \o sorted
    ELSE <<Head(sorted)>> \o SortInsert(Tail(sorted), ev)

RECURSIVE SortFold(_, _)
SortFold(sorted, rest) ==
    IF rest = <<>> THEN sorted
    ELSE SortFold(SortInsert(sorted, Head(rest)), Tail(rest))

\* const upcoming = [...events].sort(...)
upcoming == SortFold(<<>>, events)

\* the names format("MMM") gives the months
MonthNames == <<"Jan", "Feb", "Mar", "Apr", "May", "Jun",
                "Jul", "Aug", "Sep", "Oct", "Nov", "Dec">>

\* dayjs(ev.date).format("MMM D"): the month's name and the day, unpadded
FormatMonthDay(t) == [month |-> MonthNames[t.m], day |-> t.d]

\* one timeline-item: the title and the values its caption shows
TimelineItem(ev) ==
    [title |-> ev.title, day |-> FormatMonthDay(ParseDate(ev.date)),
     time |-> ev.time, duration |-> ev.duration]

\* upcoming.map(...): the entries of the timeline, in order
TimelineItems ==
    LET sorted == upcoming
    IN  [idx \in DOMAIN sorted |-> TimelineItem(sorted[idx])]

\* the test with one event counted as none
TimelineEmptyBelowTwo == Len(upcoming) < 2

\* upcoming.length === 0: "No events scheduled." is rendered
TimelineEmpty == Len(upcoming) = 0

\* addAlpha writing a short colour out in full without the alpha
addAlphaExpandOnly(hex, alpha) ==
    IF ~(hex # <<>> /\ hex[1] = "#") \/ (Len(hex) # 7 /\ Len(hex) # 4)
    THEN hex
    ELSE IF Len(hex) = 4
    THEN <<"#", hex[2], hex[2], hex[3], hex[3], hex[4], hex[4]>>
    ELSE hex \o alpha

\* addAlpha that appends the alpha to every string that starts with "#"
addAlphaAnyLength(hex, alpha) ==
    IF hex = <<>> \/ hex[1] # "#" THEN hex ELSE hex \o alpha

\* addAlpha of EventBadge
addAlpha(hex, alpha) ==
    IF ~(hex # <<>> /\ hex[1] = "#") \/ (Len(hex) # 7 /\ Len(hex) # 4)
    THEN hex
    ELSE IF Len(hex) = 4
    THEN LET r == hex[2]
             g == hex[3]
             b == hex[4]
         IN  <<"#", r, r, g, g, b, b>> \o alpha
    ELSE hex \o alpha

\* the element EventBadge returns for its props: whether it has the class
\* "conflict", its inline style, and whether the conflict dot is in it
EventBadge(props) ==
    LET bg == addAlpha(props.color, <<"2", "6">>)
    IN  [conflictClass |-> props.conflicted,
         style |-> [borderLeftColor |-> props.color, backgroundColor |-> bg],
         conflictDot |-> props.conflicted]

\* the Calendar component is on the page
CalendarShown == activePage = "Calendar"

\* the timeline is on the page, in the place of the grid
TimelineShown == CalendarShown /\ viewMode = "timeline"

\* the day grid is on the page (the timeline replaces it)
GridShown == CalendarShown /\ viewMode # "timeline"

-----------------------------------------------------------------------------
(* What the user can enter.                                                *)

\* the labels of navSections
SidebarItems == {"Dashboard", "Accounts", "Contacts", "Leads", "Calendar",
                 "Cases", "Activities", "Users"}

\* titles typed into the form: none, blanks only, and text with blanks around
Titles == { <<>>, <<" ", " ">>, <<" ", "a", " ", "b", " ">> }

\* a date, a time and a duration entered into the form
FormDates == { <<"2","0","2","4","-","0","4","-","1","0">> }
FormTimes == { <<"1","0",":","3","0">> }
FormDurations == { <<"4", "5">> }

\* what the inputs can hand over beyond that: a date input and a time input
\* that were emptied, and a number input emptied, at zero and below zero
AnyDates == FormDates \cup { <<>> }
AnyTimes == FormTimes \cup { <<>> }
AnyDurations == FormDurations \cup { <<>>, <<"0">>, <<"-", "1", "5">> }

\* the offsets of the arrow pad
PadOffsets == {-7, -1, 1, 7}

\* the dates the model follows: those within Horizon days of the clock
InHorizon(t) ==
    LET dist == DayNumber(t) - DayNumber(now)
    IN  dist <= Horizon /\ 0 - dist <= Horizon

-----------------------------------------------------------------------------
(* The initial state.                                                      *)

\* useState({ title: "", date: today, time: "09:00", duration: 60 })
InitialForm(t) ==
    [title |-> <<>>, date |-> FormatDate(t),
     time |-> <<"0","9",":","0","0">>, duration |-> 60]

\* the page loaded on the day t with the weekly view up
InitOnWeekly(t) ==
    /\ activePage = "Calendar"
    /\ now = t
    /\ currentMonth = t
    /\ viewMode = "weekly"
    /\ events = eventsData
    /\ showModal = FALSE
    /\ selectedDate = FormatDate(t)
    /\ form = InitialForm(t)
    /\ alertShown = ""
    /\ badge = PlainBadge
    /\ dataset = eventsData

\* the page as loaded on the day t: the Calendar page, freshly mounted
InitOn(t) ==
    /\ activePage = "Calendar"
    /\ now = t
    /\ currentMonth = t
    /\ viewMode = "monthly"
    /\ events = eventsData
    /\ showModal = FALSE
    /\ selectedDate = FormatDate(t)
    /\ form = InitialForm(t)
    /\ alertShown = ""
    /\ badge = PlainBadge
    /\ dataset = eventsData

\* the day the page is loaded on
LoadDate == [y |-> 2024, m |-> 4, d |-> 9]

Init == InitOn(LoadDate)

-----------------------------------------------------------------------------
(* The shell: every control calls setActivePage.                           *)

\* a new Calendar instance runs its useState initialisers
MountCalendar ==
    /\ currentMonth' = now
    /\ viewMode' = "monthly"
    /\ events' = dataset
    /\ showModal' = FALSE
    /\ selectedDate' = FormatDate(now)
    /\ form' = InitialForm(now)

\* setActivePage(p).  renderPageContent returns <Calendar /> only for
\* "Calendar": leaving that page unmounts the component and its state is
\* dropped (the variables keep the dropped values, which nothing reads);
\* coming back mounts a new instance.
SetActivePage(p) ==
    /\ activePage' = p
    /\ IF p = "Calendar" /\ activePage # "Calendar"
       THEN MountCalendar
       ELSE UNCHANGED calVars
    /\ alertShown' = ""
    /\ UNCHANGED <<now, badge, dataset>>

ClickSidebar(item) == SetActivePage(item)
ClickLogin == SetActivePage("Login")
ClickSignup == SetActivePage("Signup")
\* the notification icon leading to a page of its own
ClickNotificationsOwnPage == SetActivePage("Notifications")

ClickNotifications == SetActivePage("Activities")
ClickSettings == SetActivePage("Settings")
ClickAvatar == SetActivePage("Profile")

\* the buttons of the sidebar from top to bottom: the items of navSections
navItems ==
    <<"Dashboard", "Accounts", "Contacts", "Leads", "Calendar",
      "Cases", "Activities", "Users">>

\* the highlight falling back on Calendar for a page without a sidebar item
SidebarItemActiveOrHome(item) ==
    \/ activePage = item
    \/ activePage \notin SidebarItems /\ item = "Calendar"

\* activePage === item ? "active" : "": whether the button has the class
SidebarItemActive(item) == activePage = item

\* typing into the search box: the input has no handler
TypeSearch == UNCHANGED vars

\* renderPageContent with a panel of its own for "Settings"
renderPageContentWithSettings ==
    IF activePage \in {"Calendar", "Login", "Signup", "Profile", "Settings"}
    THEN [panel |-> activePage, heading |-> activePage]
    ELSE [panel |-> "generic", heading |-> activePage]

\* renderPageContent: the panel of the content area and its heading
renderPageContent ==
    IF activePage = "Calendar"
    THEN [panel |-> "Calendar", heading |-> "Calendar"]
    ELSE IF activePage = "Login"
    THEN [panel |-> "Login", heading |-> "Login"]
    ELSE IF activePage = "Signup"
    THEN [panel |-> "Signup", heading |-> "Create account"]
    ELSE IF activePage = "Profile"
    THEN [panel |-> "Profile", heading |-> "User profile"]
    ELSE [panel |-> "generic", heading |-> activePage]

-----------------------------------------------------------------------------
(* The calendar's handlers.  Each needs the Calendar on the page.          *)

\* the toggle going back to the period of today as well
SetViewModeResetting(mode) ==
    /\ CalendarShown
    /\ viewMode' = mode
    /\ currentMonth' = now
    /\ alertShown' = ""
    /\ UNCHANGED <<activePage, now, badge, dataset, events, showModal,
                   selectedDate, form>>

\* onClick={() => setViewMode(mode)}
SetViewMode(mode) ==
    /\ CalendarShown
    /\ viewMode' = mode
    /\ alertShown' = ""
    /\ UNCHANGED <<activePage, now, badge, dataset, currentMonth, events,
                   showModal, selectedDate, form>>

\* a month back whatever the view mode
PrevPeriodByMonth(m, mode) == AddMonths(m, -1)

\* the period handlePrev moves to
PrevPeriod(m, mode) ==
    IF mode = "weekly" THEN AddWeeks(m, -1) ELSE AddMonths(m, -1)

\* the period handleNext moves to
NextPeriod(m, mode) ==
    IF mode = "weekly" THEN AddWeeks(m, 1) ELSE AddMonths(m, 1)

handlePrev ==
    /\ CalendarShown
    /\ InHorizon(PrevPeriod(currentMonth, viewMode))
    /\ currentMonth' = PrevPeriod(currentMonth, viewMode)
    /\ alertShown' = ""
    /\ UNCHANGED <<activePage, now, badge, dataset, viewMode, events,
                   showModal, selectedDate, form>>

\* the next period with the selection taken along
handleNextSelecting ==
    /\ CalendarShown
    /\ InHorizon(NextPeriod(currentMonth, viewMode))
    /\ currentMonth' = NextPeriod(currentMonth, viewMode)
    /\ selectedDate' = FormatDate(NextPeriod(currentMonth, viewMode))
    /\ alertShown' = ""
    /\ UNCHANGED <<activePage, now, badge, dataset, viewMode, events,
                   showModal, form>>

handleNext ==
    /\ CalendarShown
    /\ InHorizon(NextPeriod(currentMonth, viewMode))
    /\ currentMonth' = NextPeriod(currentMonth, viewMode)
    /\ alertShown' = ""
    /\ UNCHANGED <<activePage, now, badge, dataset, viewMode, events,
                   showModal, selectedDate, form>>

\* Today without the switch to the monthly view
handleTodayKeepingView ==
    /\ CalendarShown
    /\ currentMonth' = now
    /\ selectedDate' = FormatDate(now)
    /\ alertShown' = ""
    /\ UNCHANGED <<activePage, now, badge, dataset, viewMode, events,
                   showModal, form>>

handleToday ==
    /\ CalendarShown
    /\ currentMonth' = now
    /\ viewMode' = "monthly"
    /\ selectedDate' = FormatDate(now)
    /\ alertShown' = ""
    /\ UNCHANGED <<activePage, now, badge, dataset, events, showModal, form>>

\* the selection moved with the period left where it is
moveSelectionInPlace(daysOffset) ==
    LET next == AddDays(ParseDate(selectedDate), daysOffset)
    IN  /\ CalendarShown
        /\ InHorizon(next) /\ InHorizon(StartOfMonth(next))
        /\ selectedDate' = FormatDate(next)
        /\ alertShown' = ""
        /\ UNCHANGED <<activePage, now, badge, dataset, currentMonth, viewMode,
                       events, showModal, form>>

\* moveSelectionBy as a function of the selection: the key it passes to
\* setSelectedDate and the day it passes to setCurrentMonth
SelectionAfter(sel, daysOffset) ==
    FormatDate(AddDays(ParseDate(sel), daysOffset))

PeriodAfter(sel, daysOffset) ==
    StartOfMonth(AddDays(ParseDate(sel), daysOffset))

moveSelectionBy(daysOffset) ==
    LET base == ParseDate(selectedDate)
        next == AddDays(base, daysOffset)
        key == FormatDate(next)
    IN  /\ CalendarShown
        /\ InHorizon(next) /\ InHorizon(StartOfMonth(next))
        /\ selectedDate' = key
        /\ currentMonth' = StartOfMonth(next)
        /\ alertShown' = ""
        /\ UNCHANGED <<activePage, now, badge, dataset, viewMode, events,
                       showModal, form>>

\* the days that have a cell in the grid
GridDays == LET ds == days IN {ds[i] : i \in DOMAIN ds}

\* the cell's click moving the period to the cell's month every time
ClickCellRecentering(day) ==
    /\ GridShown
    /\ InHorizon(day) /\ InHorizon(StartOfMonth(day))
    /\ selectedDate' = FormatDate(day)
    /\ currentMonth' = StartOfMonth(day)
    /\ alertShown' = ""
    /\ UNCHANGED <<activePage, now, badge, dataset, viewMode, events,
                   showModal, form>>

\* the onClick of the cell of `day`
\* the click that selects the day and leaves the period where it is
ClickCellSelectingOnly(day) ==
    LET cell == Cell(day)
    IN  /\ GridShown
        /\ InHorizon(day) /\ InHorizon(StartOfMonth(day))
        /\ selectedDate' = cell.dateKey
        /\ alertShown' = ""
        /\ UNCHANGED <<activePage, now, badge, dataset, currentMonth, viewMode,
                       events, showModal, form>>

ClickCell(day) ==
    LET cell == Cell(day)
    IN  /\ GridShown
        /\ InHorizon(day) /\ InHorizon(StartOfMonth(day))
        /\ selectedDate' = cell.dateKey
        /\ currentMonth' = IF ~cell.inMonth THEN StartOfMonth(day)
                           ELSE currentMonth
        /\ alertShown' = ""
        /\ UNCHANGED <<activePage, now, badge, dataset, viewMode, events,
                       showModal, form>>

\* "+ Add Event": setShowModal(true)
OpenModal ==
    /\ CalendarShown
    /\ showModal' = TRUE
    /\ alertShown' = ""
    /\ UNCHANGED <<activePage, now, badge, dataset, currentMonth, viewMode,
                   events, selectedDate, form>>

\* closing the modal with the draft put back to its initial values
CloseModalDiscarding ==
    /\ CalendarShown /\ showModal
    /\ showModal' = FALSE
    /\ form' = InitialForm(now)
    /\ alertShown' = ""
    /\ UNCHANGED <<activePage, now, badge, dataset, currentMonth, viewMode,
                   events, selectedDate>>

\* the close control and Cancel of the modal: setShowModal(false)
CloseModal ==
    /\ CalendarShown /\ showModal
    /\ showModal' = FALSE
    /\ alertShown' = ""
    /\ UNCHANGED <<activePage, now, badge, dataset, currentMonth, viewMode,
                   events, selectedDate, form>>

\* the onChange of the four inputs of the modal
SetFormTitle(v) ==
    /\ CalendarShown /\ showModal
    /\ form' = [form EXCEPT !.title = v]
    /\ alertShown' = ""
    /\ UNCHANGED <<activePage, now, badge, dataset, currentMonth, viewMode,
                   events, showModal, selectedDate>>

SetFormDate(v) ==
    /\ CalendarShown /\ showModal
    /\ form' = [form EXCEPT !.date = v]
    /\ alertShown' = ""
    /\ UNCHANGED <<activePage, now, badge, dataset, currentMonth, viewMode,
                   events, showModal, selectedDate>>

SetFormTime(v) ==
    /\ CalendarShown /\ showModal
    /\ form' = [form EXCEPT !.time = v]
    /\ alertShown' = ""
    /\ UNCHANGED <<activePage, now, badge, dataset, currentMonth, viewMode,
                   events, showModal, selectedDate>>

\* Number(text) of the text of a number input: empty gives 0, a minus sign
\* negates
Number(s) ==
    IF s # <<>> /\ s[1] = "-" THEN 0 - NumberOf(Tail(s)) ELSE NumberOf(s)

\* duration: Number(e.target.value)
SetFormDuration(v) ==
    /\ CalendarShown /\ showModal
    /\ form' = [form EXCEPT !.duration = Number(v)]
    /\ alertShown' = ""
    /\ UNCHANGED <<activePage, now, badge, dataset, currentMonth, viewMode,
                   events, showModal, selectedDate>>

\* the title test without the trim
TitleEmpty(f) == f.title = <<>>

\* !form.title.trim()
TitleMissing(f) == Trim(f.title) = <<>>

\* the record built from the draft as typed
NewEventAsTyped(f) == Event(f.title, f.date, f.time, f.duration)

\* the record handleAddEvent builds from the draft
NewEvent(f) == Event(Trim(f.title), f.date, f.time, f.duration)

\* [next, ...prev]
PrependEvent(prev, next) == <<next>> \o prev

\* setEvents((prev) => [...prev, next])
AppendEvent(prev, next) == Append(prev, next)

\* the draft reset to the first day of the month of m
ResetFormToMonthStart(f, m) ==
    [f EXCEPT !.title = <<>>, !.date = FormatDate(StartOfMonth(m))]

\* the draft handleAddEvent leaves behind
ResetForm(f, m) == [f EXCEPT !.title = <<>>, !.date = FormatDate(m)]

\* "Save Event" pushing the record into the array it was given: the
\* imported array grows with it
handleAddEventPushing ==
    /\ CalendarShown /\ showModal
    /\ IF TitleMissing(form)
       THEN /\ alertShown' = "Please add a title"
            /\ UNCHANGED <<events, showModal, form, dataset>>
       ELSE /\ Len(events) < Len(eventsData) + MaxAdded
            /\ events' = AppendEvent(events, NewEvent(form))
            /\ dataset' = AppendEvent(dataset, NewEvent(form))
            /\ showModal' = FALSE
            /\ form' = ResetForm(form, currentMonth)
            /\ alertShown' = ""
    /\ UNCHANGED <<activePage, now, badge, currentMonth, viewMode, selectedDate>>

\* "Save Event" turning away a draft without a date, without a time or
\* with a duration that is not positive as well
handleAddEventValidating ==
    /\ CalendarShown /\ showModal
    /\ IF \/ TitleMissing(form)
          \/ form.date = <<>> \/ form.time = <<>> \/ form.duration <= 0
       THEN /\ alertShown' = "Please add a title"
            /\ UNCHANGED <<events, showModal, form>>
       ELSE /\ Len(events) < Len(dataset) + MaxAdded
            /\ events' = AppendEvent(events, NewEvent(form))
            /\ showModal' = FALSE
            /\ form' = ResetForm(form, currentMonth)
            /\ alertShown' = ""
    /\ UNCHANGED <<activePage, now, badge, dataset, currentMonth, viewMode,
                   selectedDate>>

\* "Save Event"
handleAddEvent ==
    /\ CalendarShown /\ showModal
    /\ IF TitleMissing(form)
       THEN /\ alertShown' = "Please add a title"
            /\ UNCHANGED <<events, showModal, form>>
       ELSE /\ Len(events) < Len(dataset) + MaxAdded
            /\ events' = AppendEvent(events, NewEvent(form))
            /\ showModal' = FALSE
            /\ form' = ResetForm(form, currentMonth)
            /\ alertShown' = ""
    /\ UNCHANGED <<activePage, now, badge, dataset, currentMonth, viewMode,
                   selectedDate>>

-----------------------------------------------------------------------------
(* The application: every control of the shell and of the calendar.        *)

ShellNext ==
    \/ \E item \in SidebarItems : ClickSidebar(item)
    \/ ClickLogin
    \/ ClickSignup
    \/ ClickNotifications
    \/ ClickSettings
    \/ ClickAvatar

ViewNext == \E mode \in ViewModes : SetViewMode(mode)

PeriodNext ==
    \/ handlePrev
    \/ handleNext
    \/ handleToday

SelectionNext ==
    \/ \E n \in PadOffsets : moveSelectionBy(n)
    \/ \E day \in GridDays : ClickCell(day)

FormNext ==
    \/ OpenModal
    \/ CloseModal
    \/ \E v \in Titles : SetFormTitle(v)
    \/ \E v \in FormDates : SetFormDate(v)
    \/ \E v \in FormTimes : SetFormTime(v)
    \/ \E v \in FormDurations : SetFormDuration(v)
    \/ handleAddEvent

\* an EventBadge rendered with the props color and conflicted
\* calendar.css: .event-badge.conflict { border-left-color: #e04f38 }
ConflictColor == <<"#", "e", "0", "4", "f", "3", "8">>

\* calendar.css: --accent: #ffb6b6, the colour of border-left of .event-badge
AccentColor == <<"#", "f", "f", "b", "6", "b", "6">>

\* the characters of a hexadecimal colour and the colour names in use
HexChars == {"0", "1", "2", "3", "4", "5", "6", "7", "8", "9",
             "a", "b", "c", "d", "e", "f"}
NamedColors == { <<"r", "e", "d">> }

\* a value the browser takes as a colour: "#" and 3, 4, 6 or 8 hexadecimal
\* characters, or a colour name
IsCssColor(c) ==
    \/ c \in NamedColors
    \/ /\ Len(c) \in {4, 5, 7, 9}
       /\ c[1] = "#"
       /\ \A i \in 2..Len(c) : c[i] \in HexChars

\* the border-left-color the style sheet gives the element: the rule of
\* .event-badge.conflict comes after the one of .event-badge
StyleSheetBorderLeftColor(el) ==
    IF el.conflictClass THEN ConflictColor ELSE AccentColor

\* the border-left-color the element is painted with: a declaration of the
\* style attribute goes before the rules of the style sheet, none of which
\* is !important; a value that is no colour is no declaration
BorderLeftColor(el) ==
    IF IsCssColor(el.style.borderLeftColor)
    THEN el.style.borderLeftColor
    ELSE StyleSheetBorderLeftColor(el)

RenderBadge(color, conflicted) ==
    /\ badge' = [color |-> color, conflicted |-> conflicted]
    /\ UNCHANGED <<activePage, now, dataset, currentMonth, viewMode, events,
                   showModal, selectedDate, form, alertShown>>

\* the characters the colours are written with
ColorChars == {"#", "a", "1"}

\* the strings of ColorChars of length n
ColorStrings(n) == [1..n -> ColorChars]

\* the colours a badge is rendered with: every short string, the palette,
\* the palette tinted, a colour name, and strings of 5 to 9 characters with
\* and without "#"
BadgeColors ==
    UNION { ColorStrings(n) : n \in 0..MaxColorLen }
    \cup { COLORS[i] : i \in 1..Len(COLORS) }
    \cup { addAlpha(COLORS[i], <<"2", "6">>) : i \in 1..Len(COLORS) }
    \cup { <<"r","e","d">>, <<"a","b","c","d","e","f","1">>,
           <<"#","a","b","c","d">>, <<"#","a","b","c","d","e">>,
           <<"#","a","b","c","d","e","f","1">>,
           <<"a","b","c","d">> }

BadgeNext == \E color \in BadgeColors : \E conflicted \in BOOLEAN :
                 RenderBadge(color, conflicted)

Next ==
    \/ ShellNext \/ TypeSearch \/ ViewNext \/ PeriodNext \/ SelectionNext
    \/ FormNext \/ BadgeNext

\* The whole application.  Its state is the product of independent pieces
\* (page, period, selection, view, draft, events), so the properties below
\* are checked on the specifications defined further down (SpecRender,
\* SpecAdd, SpecShell, SpecAnchor, SpecNav, SpecSelect, SpecMount,
\* SpecTimeline, SpecBadge, ...), each driving the controls its properties are about.
Spec == Init /\ [][Next]_vars

-----------------------------------------------------------------------------
(* The calendar rendered over arbitrary event lists.  The list is the      *)
(* dataset followed by up to MaxExtra events as Add Event appends them,    *)
(* on the dataset's first date and on the day after it; the view toggle    *)
(* renders it as a month and as a week.                                    *)

ExtraDates == { <<"2","0","2","4","-","0","4","-","0","9">>,
                <<"2","0","2","4","-","0","4","-","1","0">> }

\* <<time, duration>>: two intervals that touch, an empty one inside the
\* dataset's 10:00/60m, one that runs past midnight, one at midnight
ExtraSlots == { << <<"0","0",":","0","0">>, 30 >>,
                << <<"0","9",":","0","0">>, 30 >>,
                << <<"0","9",":","3","0">>, 30 >>,
                << <<"1","0",":","3","0">>, 0 >>,
                << <<"2","3",":","3","0">>, 60 >> }

ExtraEvents == { Event(<<"x">>, d, sl[1], sl[2]) : d \in ExtraDates, sl \in ExtraSlots }

ExtraLists == UNION { [1..k -> ExtraEvents] : k \in 0..MaxExtra }

InitRender ==
    /\ activePage = "Calendar"
    /\ now = LoadDate
    /\ currentMonth = LoadDate
    /\ viewMode = "monthly"
    /\ \E extra \in ExtraLists : events = eventsData \o extra
    /\ showModal = FALSE
    /\ selectedDate = FormatDate(LoadDate)
    /\ form = InitialForm(LoadDate)
    /\ alertShown = ""
    /\ badge = PlainBadge
    /\ dataset = eventsData

SpecRender == InitRender /\ [][ViewNext]_vars

-----------------------------------------------------------------------------
(* Conflict detection (C1 - C4).                                           *)

\* S and E of an event: minutes since midnight of its start and of its end
StartMinute(ev) ==
    NumberOf(SubSeq(ev.time, 1, 2)) * 60 + NumberOf(SubSeq(ev.time, 4, 5))
EndMinute(ev) == StartMinute(ev) + ev.duration

\* S_a < E_b and S_b < E_a, for the events a and b of the list l
Intersect(l, a, b) ==
    StartMinute(l[a]) < EndMinute(l[b]) /\ StartMinute(l[b]) < EndMinute(l[a])

\* the cells of the grid on the page
ShownCells ==
    IF GridShown
    THEN LET ds == days IN {Cell(ds[i]) : i \in DOMAIN ds}
    ELSE {}

\* C1: detectConflicts returns one flag per event of the day, and flag i is
\* true exactly when some other event j of that day has S_i < E_j and
\* S_j < E_i.
C1_FlagsExact ==
    \A c \in ShownCells :
        LET l == c.dayEvents
            flags == c.conflicts
        IN  /\ DOMAIN flags = 1..Len(l)
            /\ \A a \in 1..Len(l) :
                   flags[a] <=> \E b \in (1..Len(l)) \ {a} : Intersect(l, a, b)

\* a day with three events or more, some flagged and some not
C1_Witness ==
    \E c \in ShownCells :
        /\ Len(c.dayEvents) >= 3
        /\ \E a, b \in DOMAIN c.conflicts : c.conflicts[a] /\ ~c.conflicts[b]

\* C2: conflict marking is symmetric: a flagged event overlaps an event
\* that is flagged too, so a day never has exactly one flagged event.
C2_Symmetric ==
    \A c \in ShownCells :
        LET l == c.dayEvents
            flags == c.conflicts
        IN  /\ \A a, b \in 1..Len(l) :
                   (a # b /\ Intersect(l, a, b) /\ flags[a]) => flags[b]
            /\ Cardinality({a \in 1..Len(l) : flags[a]}) # 1

\* the pair 10:00/60m and 10:30/45m of 2024-04-09, both flagged
C2_Witness ==
    \E c \in ShownCells :
        LET l == c.dayEvents
        IN  \E a, b \in 1..Len(l) :
                /\ StartMinute(l[a]) = 600 /\ EndMinute(l[a]) = 660
                /\ StartMinute(l[b]) = 630 /\ EndMinute(l[b]) = 675
                /\ c.conflicts[a] /\ c.conflicts[b]

\* C3: an event whose interval at most touches the intervals of the other
\* events of its day (one ends where the other starts) is not flagged.
C3_TouchingNotFlagged ==
    \A c \in ShownCells :
        LET l == c.dayEvents
        IN  \A a \in 1..Len(l) :
                (\A b \in (1..Len(l)) \ {a} :
                     \/ EndMinute(l[a]) <= StartMinute(l[b])
                     \/ EndMinute(l[b]) <= StartMinute(l[a]))
                => ~c.conflicts[a]

\* a day holding just 09:00/30m and 09:30/30m, neither flagged
C3_Witness ==
    \E c \in ShownCells :
        LET l == c.dayEvents
        IN  /\ Len(l) = 2
            /\ StartMinute(l[1]) = 540 /\ EndMinute(l[1]) = 570
            /\ StartMinute(l[2]) = 570 /\ EndMinute(l[2]) = 600
            /\ ~c.conflicts[1] /\ ~c.conflicts[2]

\* the events of the list whose date is the key, in list order
OnDate(key) == SelectSeq(events, LAMBDA e : e.date = key)

\* C4: the flags of a day cell are decided by the events of that date
\* alone: events of other dates never mark an event of the cell.
C4_DatesIsolated ==
    \A c \in ShownCells :
        LET same == OnDate(c.dateKey)
        IN  /\ c.dayEvents = same
            /\ \A a \in 1..Len(same) :
                   c.conflicts[a] =>
                       \E b \in (1..Len(same)) \ {a} : Intersect(same, a, b)

\* 2024-04-09 holds a third event 23:30/60m, which runs past midnight, and
\* the next day holds 00:00/30m and another 23:30/60m: none of the three is
\* flagged
C4_Witness ==
    \E c, n \in ShownCells :
        LET l == c.dayEvents
            k == n.dayEvents
        IN  /\ n.dateKey = FormatDate(AddDays(ParseDate(c.dateKey), 1))
            /\ Len(l) = 3 /\ Len(k) = 2
            /\ l[3].time = <<"2","3",":","3","0">> /\ l[3].duration = 60
            /\ ~c.conflicts[3]
            /\ k[1].time = <<"0","0",":","0","0">>
            /\ k[2].time = l[3].time /\ k[2].duration = l[3].duration
            /\ ~n.conflicts[1] /\ ~n.conflicts[2]

-----------------------------------------------------------------------------
(* The Add-Event workflow: the modal, the form and Save Event, with the    *)
(* period moved by the header's previous, next and Today buttons.          *)

SpecAdd == Init /\ [][FormNext \/ PeriodNext]_vars

\* The same workflow with the shell's controls, which swap the Calendar
\* out of the page and back in.
SpecShell == Init /\ [][FormNext \/ ShellNext]_vars

\* the draft's title holds a character that is not white space
TitleGiven == \E k \in 1..Len(form.title) : ~IsSpace(form.title[k])

\* t is s without the white space at its two ends
IsTrimOf(t, s) ==
    \E i \in 1..(Len(s) + 1) : \E j \in 0..Len(s) :
        /\ t = SubSeq(s, i, j)
        /\ \A k \in 1..(i - 1) : IsSpace(s[k])
        /\ \A k \in (j + 1)..Len(s) : IsSpace(s[k])
        /\ t # <<>> => (~IsSpace(t[1]) /\ ~IsSpace(t[Len(t)]))

\* C5: Save Event with a title that is not blank appends exactly one record
\* to the end of events, with the trimmed title and the draft's date, time
\* and duration, and closes the modal.
C5_SubmitAppends ==
    [][(handleAddEvent /\ TitleGiven) =>
          /\ Len(events') = Len(events) + 1
          /\ SubSeq(events', 1, Len(events)) = events
          /\ IsTrimOf(events'[Len(events')].title, form.title)
          /\ events'[Len(events')].date = form.date
          /\ events'[Len(events')].time = form.time
          /\ events'[Len(events')].duration = form.duration
          /\ showModal' = FALSE]_vars

\* the draft " a b " with date 2024-04-10, 10:30 and 45 minutes was saved
C5_Witness ==
    /\ Len(events) = Len(eventsData) + 1
    /\ events[Len(events)] = Event(<<"a", " ", "b">>,
                                   <<"2","0","2","4","-","0","4","-","1","0">>,
                                   <<"1","0",":","3","0">>, 45)
    /\ ~showModal

\* C6: Save Event with an empty or blank title shows "Please add a title"
\* and changes nothing: events, the modal and the draft stay as they were.
C6_BlankRejected ==
    [][(handleAddEvent /\ ~TitleGiven) =>
          /\ alertShown' = "Please add a title"
          /\ events' = events
          /\ showModal' = showModal /\ showModal
          /\ form' = form
          /\ UNCHANGED <<activePage, currentMonth, viewMode, selectedDate>>]_vars

\* a blank title was submitted with an edited draft: the alert is up, the
\* modal open and the draft still holds what was typed
C6_Witness ==
    /\ alertShown = "Please add a title"
    /\ showModal
    /\ form.title = <<" ", " ">>
    /\ form.duration = 45
    /\ events = eventsData

\* C7: while the calendar is on the page every operation leaves the records
\* of events where they are: events only grows at its end, and the dataset
\* stays its prefix.
C7_AppendOnly ==
    [][(CalendarShown /\ CalendarShown') =>
          /\ Len(events') >= Len(events)
          /\ SubSeq(events', 1, Len(events)) = events
          /\ SubSeq(events', 1, Len(eventsData)) = eventsData]_vars

\* an event was added, the period moved and the modal opened again
C7_Witness ==
    /\ CalendarShown
    /\ Len(events) > Len(eventsData)
    /\ currentMonth # now
    /\ showModal

\* C8: no control of the shell alters the calendar's state: after going to
\* another page and back the calendar is as it was left.
C8_ShellKeepsCalendar ==
    [][ShellNext =>
          UNCHANGED <<events, selectedDate, currentMonth, viewMode, form>>]_vars

-----------------------------------------------------------------------------
(* The grids of every anchor date: the page is loaded on any day of the    *)
(* years FirstYear .. FirstYear + Years - 1 and rendered in each view.     *)

AnchorDates ==
    { [y |-> y, m |-> m, d |-> d] :
          y \in FirstYear..(FirstYear + Years - 1), m \in 1..12, d \in 1..31 }

InitAnchor ==
    \E t \in AnchorDates : t.d <= DaysInMonth(t.y, t.m) /\ InitOn(t)

SpecAnchor == InitAnchor /\ [][ViewNext]_vars

\* the day of the week by Sakamoto's method, 0 = Sunday
WeekdayOf(t) ==
    LET y == IF t.m < 3 THEN t.y - 1 ELSE t.y
        k == <<0, 3, 2, 5, 0, 3, 5, 1, 4, 6, 2, 4>>[t.m]
    IN  (y + (y \div 4) - (y \div 100) + (y \div 400) + k + t.d) % 7

\* b is the calendar day after a
IsNextDay(a, b) ==
    IF a.d < DaysInMonth(a.y, a.m)
    THEN b = [y |-> a.y, m |-> a.m, d |-> a.d + 1]
    ELSE IF a.m < 12 THEN b = [y |-> a.y, m |-> a.m + 1, d |-> 1]
    ELSE b = [y |-> a.y + 1, m |-> 1, d |-> 1]

\* C10: the month grid of any anchor date is a run of consecutive days
\* whose length is a multiple of 7, from a Sunday to a Saturday, holding
\* every date of the anchor's month exactly once.
C10_MonthGrid ==
    (CalendarShown /\ viewMode # "weekly") =>
        LET g == days
        IN  /\ Len(g) > 0 /\ Len(g) % 7 = 0
            /\ WeekdayOf(g[1]) = 0
            /\ WeekdayOf(g[Len(g)]) = 6
            /\ \A i \in 1..(Len(g) - 1) : IsNextDay(g[i], g[i + 1])
            /\ \A d \in 1..DaysInMonth(currentMonth.y, currentMonth.m) :
                   Cardinality({i \in 1..Len(g) :
                       g[i] = [y |-> currentMonth.y, m |-> currentMonth.m,
                               d |-> d]}) = 1

\* the month view of February 2026, which is exactly four weeks, anchored
\* on its last day
C10_Witness ==
    /\ CalendarShown /\ viewMode = "monthly"
    /\ currentMonth = [y |-> 2026, m |-> 2, d |-> 28]
    /\ Len(days) = 28

\* C11: the week grid of any anchor date is exactly 7 consecutive days, the
\* first of them a Sunday, and the anchor date is one of the 7 (so the first
\* is the Sunday on or before the anchor).
C11_WeekGrid ==
    (CalendarShown /\ viewMode = "weekly") =>
        LET g == days
        IN  /\ Len(g) = 7
            /\ WeekdayOf(g[1]) = 0
            /\ \A i \in 1..6 : IsNextDay(g[i], g[i + 1])
            /\ \E i \in 1..7 : g[i] = currentMonth

\* the week of Wednesday 2025-12-31, which runs from Sunday 2025-12-28 into
\* the next year
C11_Witness ==
    /\ CalendarShown /\ viewMode = "weekly"
    /\ currentMonth = [y |-> 2025, m |-> 12, d |-> 31]
    /\ days[1] = [y |-> 2025, m |-> 12, d |-> 28]
    /\ days[7] = [y |-> 2026, m |-> 1, d |-> 3]

-----------------------------------------------------------------------------
(* Navigation: the page is loaded on one of LoadDates and the period is    *)
(* moved by the header's previous, next and Today buttons in every view.   *)
(* 2024-04-09 has the leap February within reach, 2025-01-31 a year end    *)
(* and the short February of a common year.                                *)

LoadDates == { LoadDate, [y |-> 2025, m |-> 1, d |-> 31] }

InitNav == \E t \in LoadDates : InitOn(t)

SpecNav == InitNav /\ [][ViewNext \/ PeriodNext]_vars

\* the months counted from year 0
MonthIndex(t) == t.y * 12 + t.m

\* t is a date of the calendar
IsRealDate(t) ==
    t.m \in 1..12 /\ t.d >= 1 /\ t.d <= DaysInMonth(t.y, t.m)

\* C12: next and previous move currentMonth by exactly 7 days in weekly
\* view, and in monthly and timeline view to a date of the month right
\* after, or right before, the month it was in, whatever its day of month.
C12_PeriodShift ==
    [][/\ handleNext =>
            /\ IsRealDate(currentMonth')
            /\ IF viewMode = "weekly"
               THEN DayNumber(currentMonth') = DayNumber(currentMonth) + 7
               ELSE MonthIndex(currentMonth') = MonthIndex(currentMonth) + 1
       /\ handlePrev =>
            /\ IsRealDate(currentMonth')
            /\ IF viewMode = "weekly"
               THEN DayNumber(currentMonth') = DayNumber(currentMonth) - 7
               ELSE MonthIndex(currentMonth') = MonthIndex(currentMonth) - 1
      ]_vars

\* loaded on 2025-01-31: next in timeline view has led to February 2025,
\* on its last day
C12_Witness ==
    /\ now = [y |-> 2025, m |-> 1, d |-> 31]
    /\ viewMode = "timeline"
    /\ currentMonth = [y |-> 2025, m |-> 2, d |-> 28]

\* C13: after next, what previous would set currentMonth to (the view mode
\* being the same) shows the period next started from: the same week grid
\* in weekly view, the same month and month grid in monthly and timeline
\* view.
C13_NextThenPrev ==
    [][handleNext =>
          LET back == PrevPeriod(currentMonth', viewMode')
          IN  IF viewMode = "weekly"
              THEN buildWeekGrid(back) = buildWeekGrid(currentMonth)
              ELSE /\ IsSameMonth(back, currentMonth)
                   /\ buildMonthGrid(back) = buildMonthGrid(currentMonth)
      ]_vars

\* loaded on 2024-04-09: next in monthly view from 2024-03-31 has led to
\* 2024-04-30, from where previous gives 2024-03-30
C13_Witness ==
    /\ now = LoadDate
    /\ viewMode = "monthly"
    /\ currentMonth = [y |-> 2024, m |-> 4, d |-> 30]
    /\ PrevPeriod(currentMonth, viewMode) = [y |-> 2024, m |-> 3, d |-> 30]

-----------------------------------------------------------------------------
(* Selection: the page is loaded on one of LoadDates; the selection is     *)
(* moved by the arrow pad and by clicks on the cells of the grid, in every *)
(* view, with Today and with the modal opened and closed in between.       *)

SpecSelect ==
    InitNav /\ [][ViewNext \/ SelectionNext \/ handleToday
                     \/ OpenModal \/ CloseModal]_vars

\* the date a string YYYY-MM-DD names, read digit by digit
DateOfKey(s) ==
    [y |-> DigitVal(s[1]) * 1000 + DigitVal(s[2]) * 100
           + DigitVal(s[3]) * 10 + DigitVal(s[4]),
     m |-> DigitVal(s[6]) * 10 + DigitVal(s[7]),
     d |-> DigitVal(s[9]) * 10 + DigitVal(s[10])]

\* s is the YYYY-MM-DD string of the date t
IsKeyOf(s, t) == IsDateString(s) /\ DateOfKey(s) = t

\* C14: Today sets, in the one step it takes, currentMonth to the date of
\* the clock, viewMode to monthly and selectedDate to that date's string,
\* and leaves events, the draft and the modal as they are.  No step of the
\* calendar is a part of it: a step that changes the view mode and the
\* selection together is a whole Today.
C14_TodayAtomic ==
    [][/\ handleToday =>
            /\ currentMonth' = now
            /\ viewMode' = "monthly"
            /\ IsKeyOf(selectedDate', now)
            /\ UNCHANGED <<events, form, showModal, now, activePage>>
       /\ (viewMode' # viewMode /\ selectedDate' # selectedDate) =>
            /\ currentMonth' = now
            /\ viewMode' = "monthly"
            /\ IsKeyOf(selectedDate', now)
      ]_vars

\* Today has been pressed with the modal open: the view is monthly, the
\* period and the selection are the clock's date, and the modal is still
\* open
C14_Witness ==
    /\ CalendarShown /\ showModal
    /\ currentMonth = now
    /\ viewMode = "monthly"
    /\ selectedDate = today
    /\ now = [y |-> 2025, m |-> 1, d |-> 31]

\* C15: a move of the selection by n days sets selectedDate to the string
\* of the calendar date n days from the old one, sets currentMonth to the
\* first day of that date's month and leaves the view mode (and events, the
\* draft and the modal) as they are.
C15_MoveSelection ==
    [][\A n \in PadOffsets :
          moveSelectionBy(n) =>
              LET old == DateOfKey(selectedDate)
                  new == DateOfKey(selectedDate')
              IN  /\ IsDateString(selectedDate')
                  /\ IsRealDate(new)
                  /\ DayNumber(new) = DayNumber(old) + n
                  /\ currentMonth' = [y |-> new.y, m |-> new.m, d |-> 1]
                  /\ UNCHANGED <<viewMode, events, form, showModal>>
      ]_vars

\* the selection has moved from April into March 2024 in the weekly view:
\* 2024-03-25 is selected (7 days before 2024-04-01) and the period is
\* 2024-03-01
C15_Witness ==
    /\ viewMode = "weekly"
    /\ selectedDate = <<"2","0","2","4","-","0","3","-","2","5">>
    /\ currentMonth = [y |-> 2024, m |-> 3, d |-> 1]

\* the grid of the period m in the view mode `mode`
DaysOf(mode, m) ==
    IF mode = "weekly" THEN buildWeekGrid(m) ELSE buildMonthGrid(m)

\* C16: after a move of the selection in the monthly or the weekly view
\* the selected date is one of the days of the grid on the page.
C16_GridFollowsSelection ==
    [][((\E n \in PadOffsets : moveSelectionBy(n)) /\ GridShown) =>
          LET g == DaysOf(viewMode', currentMonth')
          IN  \E i \in DOMAIN g : IsKeyOf(selectedDate', g[i])]_vars

\* C17: a click on a cell of the grid sets selectedDate to the string of
\* the cell's date; currentMonth stays as it is when the cell is of the
\* month of currentMonth and becomes the first day of the cell's month
\* when it is not; the view mode, events and the draft are unchanged.
C17_CellClick ==
    [][\A day \in GridDays :
          ClickCell(day) =>
              /\ IsKeyOf(selectedDate', day)
              /\ IF day.y = currentMonth.y /\ day.m = currentMonth.m
                 THEN currentMonth' = currentMonth
                 ELSE currentMonth' = [y |-> day.y, m |-> day.m, d |-> 1]
              /\ UNCHANGED <<viewMode, events, form, showModal>>
      ]_vars

\* loaded on 2024-04-09: the cell of 2024-04-30 was clicked in the month
\* view, the period is still 2024-04-09
C17_Witness ==
    /\ viewMode = "monthly"
    /\ now = LoadDate
    /\ currentMonth = LoadDate
    /\ selectedDate = <<"2","0","2","4","-","0","4","-","3","0">>

-----------------------------------------------------------------------------
(* Mounting: the page is loaded on any day of the years explored, the view *)
(* is toggled, and the shell's controls take the Calendar off the page and *)
(* put a new one on it.                                                    *)

SpecMount == InitAnchor /\ [][ShellNext \/ ViewNext]_vars

\* C18: a freshly mounted calendar (at load, and each time the shell puts
\* the Calendar on the page) shows the month of the clock's date in the
\* monthly view, with that date selected and the modal closed; and in such
\* a state the grid has one cell for the clock's date, of the displayed
\* month and marked today and selected.
C18_FreshMount ==
    /\ CalendarShown
    /\ IsSameMonth(currentMonth, now)
    /\ viewMode = "monthly"
    /\ IsKeyOf(selectedDate, now)
    /\ ~showModal
    /\ [][(~CalendarShown /\ CalendarShown') =>
              /\ currentMonth'.y = now'.y /\ currentMonth'.m = now'.m
              /\ viewMode' = "monthly"
              /\ IsKeyOf(selectedDate', now')
              /\ ~showModal']_vars
    /\ []((/\ CalendarShown
           /\ IsSameMonth(currentMonth, now)
           /\ viewMode = "monthly"
           /\ IsKeyOf(selectedDate, now)) =>
              /\ Cardinality({c \in ShownCells : IsKeyOf(c.dateKey, now)}) = 1
              /\ \A c \in ShownCells :
                     IsKeyOf(c.dateKey, now) =>
                         c.isToday /\ c.isSelected /\ c.inMonth)

\* the calendar mounted on the leap day 2024-02-29: its cell is in the
\* grid of February 2024, marked today and selected
C18_Witness ==
    /\ CalendarShown /\ ~showModal
    /\ now = [y |-> 2024, m |-> 2, d |-> 29]
    /\ currentMonth = now
    /\ viewMode = "monthly"
    /\ \E c \in ShownCells :
           /\ c.dateKey = <<"2","0","2","4","-","0","2","-","2","9">>
           /\ c.isToday /\ c.isSelected /\ c.inMonth

-----------------------------------------------------------------------------
(* The timeline (C19, C20).                                                *)

\* the date and time of an event as minutes, read digit by digit
KeyOf(ev) == DayNumber(DateOfKey(ev.date)) * 1440 + StartMinute(ev)

\* the place of event i in the order by date and time, keys[j] being the
\* date and time of event j: the events with the date and time of event i
\* are counted in list order
Rank(keys, i) ==
    1 + Cardinality({j \in DOMAIN keys : keys[j] < keys[i]})
      + Cardinality({j \in 1..(i - 1) : keys[j] = keys[i]})

\* the event has a date YYYY-MM-DD of the calendar and a time HH:mm
WellFormed(ev) ==
    /\ IsDateString(ev.date) /\ IsRealDate(DateOfKey(ev.date))
    /\ Len(ev.time) = 5 /\ ev.time[3] = ":"
    /\ \A k \in {1, 2, 4, 5} : IsDigit(ev.time[k])
    /\ StartMinute(ev) < 1440

\* C19: the timeline has one entry per event of events, whatever its date:
\* event i is the entry at its rank by date and time, where events of equal
\* date and time rank in list order; so the entries are in ascending order
\* and each shows the title, time and duration of its event.  (Every event
\* has a date and a time that parse, as the data model has it.)
C19_TimelineSorted ==
    (TimelineShown /\ \A i \in 1..Len(events) : WellFormed(events[i])) =>
        LET u == upcoming
            items == TimelineItems
            n == Len(events)
            keys == [i \in 1..n |-> KeyOf(events[i])]
        IN  /\ Len(u) = n /\ Len(items) = n
            /\ \A i \in 1..n : u[Rank(keys, i)] = events[i]
            /\ \A i \in 1..(n - 1) : KeyOf(u[i]) <= KeyOf(u[i + 1])
            /\ \A i \in 1..n :
                   /\ items[i].title = u[i].title
                   /\ items[i].time = u[i].time
                   /\ items[i].duration = u[i].duration
                   /\ items[i].day.day = DateOfKey(u[i].date).d

\* the dataset followed by an event at 00:00 of 2024-04-09 and one at 10:30
\* of that day: the first leads the timeline, the second comes right after
\* the dataset's event of 10:30, and an event of 2024-04-12 follows
C19_Witness ==
    /\ TimelineShown
    /\ Len(events) = 7
    /\ events[6] = Event(<<"x">>, <<"2","0","2","4","-","0","4","-","0","9">>,
                          <<"0","0",":","0","0">>, 30)
    /\ events[7] = Event(<<"x">>, <<"2","0","2","4","-","0","4","-","0","9">>,
                          <<"1","0",":","3","0">>, 0)
    /\ upcoming[1] = events[6]
    /\ upcoming[3] = events[2]
    /\ upcoming[4] = events[7]
    /\ upcoming[5] = events[3]

\* The timeline over any dataset: events.json holding up to MaxExtra
\* records, or none at all.
InitTimeline ==
    /\ activePage = "Calendar"
    /\ now = LoadDate
    /\ currentMonth = LoadDate
    /\ viewMode = "monthly"
    /\ events \in ExtraLists
    /\ showModal = FALSE
    /\ selectedDate = FormatDate(LoadDate)
    /\ form = InitialForm(LoadDate)
    /\ alertShown = ""
    /\ badge = PlainBadge
    /\ dataset = events

SpecTimeline == InitTimeline /\ [][ViewNext]_vars

\* C20: in the timeline view "No events scheduled." is rendered exactly
\* when events is empty, and then the timeline has no entry.
C20_EmptyMessage ==
    TimelineShown =>
        /\ TimelineEmpty <=> events = <<>>
        /\ TimelineEmpty => TimelineItems = <<>>
        /\ ~TimelineEmpty => Len(TimelineItems) = Len(events)

\* the timeline of an empty dataset: the message and no entry
C20_Witness ==
    /\ TimelineShown
    /\ events = <<>>
    /\ TimelineEmpty
    /\ Len(TimelineItems) = 0

-----------------------------------------------------------------------------
(* The event badge on its own: EventBadge rendered with any of BadgeColors *)
(* as its colour, conflicted or not.                                       *)

InitBadge ==
    /\ activePage = "Calendar"
    /\ now = LoadDate
    /\ currentMonth = LoadDate
    /\ viewMode = "monthly"
    /\ events = eventsData
    /\ showModal = FALSE
    /\ selectedDate = FormatDate(LoadDate)
    /\ form = InitialForm(LoadDate)
    /\ alertShown = ""
    /\ badge \in [color : BadgeColors, conflicted : BOOLEAN]
    /\ dataset = eventsData

SpecBadge == InitBadge /\ [][BadgeNext]_vars

\* C23: the background tint of a badge is its colour with "26" appended
\* when the colour has 7 characters and starts with "#"; "#" with each of
\* the three characters after it doubled, and then "26", when it has 4
\* characters and starts with "#"; and the colour itself in every other
\* case.
C23_Tint ==
    LET c == badge.color
        bg == EventBadge(badge).style.backgroundColor
        hash == Len(c) >= 1 /\ c[1] = "#"
    IN  /\ (hash /\ Len(c) = 7) => bg = c \o <<"2", "6">>
        /\ (hash /\ Len(c) = 4) =>
               bg = <<"#", c[2], c[2], c[3], c[3], c[4], c[4], "2", "6">>
        /\ (~hash \/ Len(c) \notin {4, 7}) => bg = c

\* the badge of the short colour #a1a: its tint is #aa11aa26
C23_Witness ==
    /\ badge.color = <<"#", "a", "1", "a">>
    /\ EventBadge(badge).style.backgroundColor
           = <<"#", "a", "a", "1", "1", "a", "a", "2", "6">>

-----------------------------------------------------------------------------
(* The shell (C21, C22): its controls and the search box, with the         *)
(* Add-Event workflow giving the calendar a state to keep or lose.         *)

SpecPages == Init /\ [][ShellNext \/ TypeSearch \/ FormNext]_vars

\* what a control of the shell with the target p does: activePage becomes
\* p; the clock and the calendar's state are left alone, but for a step
\* that brings the Calendar page up from another page, which mounts a new
\* calendar
GoesTo(p) ==
    /\ activePage' = p
    /\ UNCHANGED <<now, badge, dataset>>
    /\ (p # "Calendar" \/ activePage = "Calendar") => UNCHANGED calVars

C22_ContentOfPage ==
    LET c == renderPageContent
    IN  /\ c.panel \in {"Calendar", "Login", "Signup", "Profile", "generic"}
        /\ c.panel = "Calendar" <=> activePage = "Calendar"
        /\ CalendarShown <=> c.panel = "Calendar"
        /\ activePage \in {"Login", "Signup", "Profile"} => c.panel = activePage
        /\ activePage \notin {"Calendar", "Login", "Signup", "Profile"} =>
               c.panel = "generic" /\ c.heading = activePage

\* the settings icon was used: the generic panel headed "Settings"
C22_Witness ==
    /\ activePage = "Settings"
    /\ renderPageContent = [panel |-> "generic", heading |-> "Settings"]

-----------------------------------------------------------------------------
(* Opening and closing the modal (C24, C25).                               *)

\* C24: "+ Add Event" and the modal's Cancel and close control change the
\* modal's visibility and nothing else: the draft keeps its title, date,
\* time and duration, and events, the period, the view mode and the
\* selection are as they were.
C24_ModalOnly ==
    [][/\ OpenModal =>
            /\ showModal'
            /\ UNCHANGED <<form, events, currentMonth, viewMode, selectedDate>>
       /\ CloseModal =>
            /\ ~showModal'
            /\ UNCHANGED <<form, events, currentMonth, viewMode, selectedDate>>
      ]_vars

\* a draft with a title, a date, a time and a duration entered, and the
\* modal closed without a save: the draft still holds all four
C24_Witness ==
    /\ ~showModal
    /\ events = eventsData
    /\ form.title = <<" ", "a", " ", "b", " ">>
    /\ form.date = <<"2","0","2","4","-","0","4","-","1","0">>
    /\ form.time = <<"1","0",":","3","0">>
    /\ form.duration = 45

\* C25: Cancel writes nothing to events and discards the draft: at the
\* next opening of the modal the draft has no title carried over.
C25_CancelDiscards ==
    [][/\ CloseModal => events' = events
       /\ OpenModal => form'.title = <<>>
      ]_vars

-----------------------------------------------------------------------------
(* What "Save Event" accepts (C26).                                        *)

\* the modal with every value its inputs can hand over
SubmitNext ==
    \/ OpenModal
    \/ CloseModal
    \/ \E v \in Titles : SetFormTitle(v)
    \/ \E v \in AnyDates : SetFormDate(v)
    \/ \E v \in AnyTimes : SetFormTime(v)
    \/ \E v \in AnyDurations : SetFormDuration(v)
    \/ handleAddEvent

SpecSubmit == Init /\ [][SubmitNext]_vars

\* C26: "Save Event" rejects a draft exactly when its title is empty after
\* trimming.  A draft with any other title is appended with the date, the
\* time and the duration it holds, whatever they are: an emptied date or
\* time, a duration of zero or below.  Emptying the duration field puts 0
\* into the draft.
C26_OnlyBlankRejected ==
    [][/\ handleAddEvent =>
            IF Trim(form.title) = <<>>
            THEN events' = events /\ showModal' /\ form' = form
            ELSE /\ Len(events') = Len(events) + 1
                 /\ SubSeq(events', 1, Len(events)) = events
                 /\ LET ev == events'[Len(events')]
                    IN  /\ ev.date = form.date
                        /\ ev.time = form.time
                        /\ ev.duration = form.duration
                 /\ ~showModal'
       /\ SetFormDuration(<<>>) => form'.duration = 0
       /\ SetFormDuration(<<"-", "1", "5">>) => form'.duration = 0 - 15
      ]_vars

\* an event saved from a draft whose date and duration fields were emptied
C26_Witness ==
    /\ Len(events) = Len(eventsData) + 1
    /\ events[Len(events)].date = <<>>
    /\ events[Len(events)].duration = 0

-----------------------------------------------------------------------------
(* The grouping of the events by date (C27).                               *)

\* the events of evs dated k, in the order of evs
DatedOn(evs, k) == SelectSeq(evs, LAMBDA e : e.date = k)

\* the sizes of the groups g[k], k in keys, added up
RECURSIVE SumOfSizes(_, _)
SumOfSizes(g, keys) ==
    IF keys = {} THEN 0
    ELSE LET k == CHOOSE x \in keys : TRUE
         IN  Len(g[k]) + SumOfSizes(g, keys \ {k})

\* C27: groupEventsByDate partitions events.  Every event is in the group
\* keyed by its own date and in no other; no group is empty; a group holds
\* its events in the order they have in events; the sizes of the groups add
\* up to the length of events.
C27_Partition ==
    LET g == eventsByDate
    IN  /\ \A i \in DOMAIN events : events[i].date \in DOMAIN g
        /\ \A k \in DOMAIN g :
              /\ g[k] # <<>>
              /\ g[k] = DatedOn(events, k)
              /\ \A i \in DOMAIN g[k] : g[k][i].date = k
        /\ SumOfSizes(g, DOMAIN g) = Len(events)

\* events of one date with an event of another date between them, and
\* three dates or more in all
C27_Witness ==
    /\ Cardinality({events[i].date : i \in DOMAIN events}) >= 3
    /\ \E i, j, k \in DOMAIN events :
          /\ i < j /\ j < k
          /\ events[i].date = events[k].date
          /\ events[j].date # events[i].date
    /\ Len(eventsByDate[events[Len(events)].date]) >= 2

-----------------------------------------------------------------------------
(* The left border of a badge (C28).                                       *)

\* C28: the left border of a conflicted badge has the fixed conflict
\* colour, whatever colour the badge was given.
C28_ConflictAccent ==
    badge.conflicted => BorderLeftColor(EventBadge(badge)) = ConflictColor

-----------------------------------------------------------------------------
(* The colours of the badges of a cell (C29).                              *)

\* events added to the day of the dataset's first two events
SameDayEvents ==
    { Event(<<"x">>, <<"2","0","2","4","-","0","4","-","0","9">>,
            <<"0","0",":","0","0">>, 30),
      Event(<<"y">>, <<"2","0","2","4","-","0","4","-","0","9">>,
            <<"2","3",":","3","0">>, 60) }

SameDayLists == UNION { [1..k -> SameDayEvents] : k \in 0..MaxSameDay }

InitPalette ==
    /\ activePage = "Calendar"
    /\ now = LoadDate
    /\ currentMonth = LoadDate
    /\ viewMode = "monthly"
    /\ \E extra \in SameDayLists : events = eventsData \o extra
    /\ showModal = FALSE
    /\ selectedDate = FormatDate(LoadDate)
    /\ form = InitialForm(LoadDate)
    /\ alertShown = ""
    /\ badge = PlainBadge
    /\ dataset = eventsData

SpecPalette == InitPalette /\ [][ViewNext]_vars

\* the palette of six colours, written out
Palette ==
    << <<"#","f","f","b","6","b","6">>, <<"#","b","6","e","3","f","f">>,
       <<"#","c","0","f","1","d","8">>, <<"#","f","f","e","1","b","6">>,
       <<"#","d","8","c","7","f","f">>, <<"#","f","f","d","6","f","2">> >>

\* C29: in a cell the badge at index k (from 0) of the day's events has the
\* palette colour k mod 6.  The index stays within the palette for any
\* number of events, and from the seventh event on a badge has the colour
\* of the badge six places before it.
C29_PaletteCycle ==
    \A c \in ShownCells :
        LET b == CellBadges(c.dayEvents, c.conflicts)
        IN  /\ DOMAIN b = DOMAIN c.dayEvents
            /\ \A p \in DOMAIN b :
                  LET k == p - 1
                      r == k - 6 * (k \div 6)
                  IN  /\ r \in 0..5
                      /\ b[p].color = Palette[r + 1]
                      /\ p > 6 => b[p].color = b[p - 6].color
                      /\ b[p].title = c.dayEvents[p].title

\* a day of eight events: the seventh badge has the colour of the first
C29_Witness ==
    /\ GridShown
    /\ \E c \in ShownCells :
          /\ Len(c.dayEvents) = 8
          /\ CellBadges(c.dayEvents, c.conflicts)[7].color = Palette[1]
          /\ CellBadges(c.dayEvents, c.conflicts)[1].color = Palette[1]
          /\ CellBadges(c.dayEvents, c.conflicts)[8].color = Palette[2]

-----------------------------------------------------------------------------
(* What the previous and next buttons leave alone (C30).                   *)

\* the period buttons and the view toggle, with the modal opened and closed
\* and a title typed
SpecPeriod ==
    InitNav /\ [][\/ ViewNext
                  \/ PeriodNext
                  \/ OpenModal
                  \/ CloseModal
                  \/ \E v \in Titles : SetFormTitle(v)]_vars

\* C30: the previous and next buttons change the period and nothing else:
\* the selection, the view mode, the events, the draft and the modal's
\* visibility are as before.  The selected date can thus be off the grid
\* after the step.
C30_PeriodOnly ==
    [][(handlePrev \/ handleNext) =>
          /\ UNCHANGED <<selectedDate, viewMode, events, form, showModal,
                         activePage>>
          /\ currentMonth' \in {PrevPeriod(currentMonth, viewMode),
                                 NextPeriod(currentMonth, viewMode)}
      ]_vars

\* a grid one period on from the load date, with the selection still on the
\* load date and on none of the grid's days, the modal open and a title
\* typed
C30_Witness ==
    /\ GridShown
    /\ showModal
    /\ form.title = <<" ", "a", " ", "b", " ">>
    /\ selectedDate = FormatDate(now)
    /\ currentMonth = NextPeriod(now, viewMode)
    /\ LET ds == days IN \A i \in DOMAIN ds : ~IsKeyOf(selectedDate, ds[i])

-----------------------------------------------------------------------------
(* The view toggle among all the calendar's controls (C31).                *)

\* nothing typed, nothing saved, the modal closed
DraftUntouched == form = InitialForm(now) /\ events = eventsData /\ ~showModal

\* the period and the selection as loaded
AtLoad == currentMonth = now /\ selectedDate = FormatDate(now)

\* every control of the calendar: the view toggle and Today at any time, the
\* period buttons, the arrow pad and the cells while the draft is untouched,
\* the modal while the period and the selection are as loaded
SpecView ==
    Init /\ [][\/ ViewNext
               \/ handleToday
               \/ DraftUntouched /\ (handlePrev \/ handleNext \/ SelectionNext)
               \/ AtLoad /\ FormNext]_vars

\* C31: the view toggle sets viewMode to the mode chosen and changes
\* nothing else.  viewMode is always one of monthly, weekly and timeline,
\* and, the toggle apart, only Today changes it.
C31_ViewToggle ==
    /\ [][/\ \A mode \in {"monthly", "weekly", "timeline"} :
                 SetViewMode(mode) =>
                     /\ viewMode' = mode
                     /\ UNCHANGED <<currentMonth, selectedDate, events, form,
                                    showModal, activePage>>
          /\ (viewMode' # viewMode) =>
                 \/ \E mode \in {"monthly", "weekly", "timeline"} :
                        SetViewMode(mode)
                 \/ handleToday
         ]_vars
    /\ [](viewMode \in {"monthly", "weekly", "timeline"})

\* the timeline chosen with the period and the selection moved away from
\* the load date: they are as they were in the grid
C31_Witness ==
    /\ viewMode = "timeline"
    /\ currentMonth = [y |-> 2024, m |-> 5, d |-> 1]
    /\ selectedDate = <<"2","0","2","4","-","0","5","-","0","7">>

-----------------------------------------------------------------------------
(* The highlight of the sidebar (C32).                                     *)

\* the positions of the sidebar whose button is highlighted
Highlighted == {i \in DOMAIN navItems : SidebarItemActive(navItems[i])}

\* C32: a sidebar item is highlighted exactly when its label is
\* activePage.  At most one item is highlighted in any state, none when
\* activePage is Login, Signup, Profile or Settings, and after a click on
\* the notification icon the highlighted item is Activities.
C32_Highlight ==
    /\ [](\A i \in DOMAIN navItems :
              i \in Highlighted <=> navItems[i] = activePage)
    /\ [](Cardinality(Highlighted) <= 1)
    /\ [](activePage \in {"Login", "Signup", "Profile", "Settings"}
              => Highlighted = {})
    /\ [][ClickNotifications =>
             \A i \in DOMAIN navItems :
                 SidebarItemActive(navItems[i])' <=> navItems[i] = "Activities"
         ]_vars

\* the page Activities: the seventh button and no other is highlighted
C32_Witness ==
    /\ activePage = "Activities"
    /\ Highlighted = {7}
    /\ navItems[7] = "Activities"

-----------------------------------------------------------------------------
(* The selection and the grid after a click on a cell (C33, C34).          *)

\* C33: after a click on a cell of the grid, in the monthly or the weekly
\* view, the clicked day is one of the days of the grid shown next and is
\* the selected one there.
C33_ClickedDayShown ==
    [][\A day \in GridDays :
          ClickCell(day) =>
              LET g == DaysOf(viewMode', currentMonth')
              IN  \E i \in DOMAIN g :
                      g[i] = day /\ IsKeyOf(selectedDate', g[i])
      ]_vars

\* the cells of the month grid of m that are marked selected for the
\* selection s
SelectedIn(m, s) ==
    SelectSeq(buildMonthGrid(m), LAMBDA d : IsKeyOf(s, d))

\* C34: in the monthly view, right after Today, a move of the selection or
\* a click on a cell, exactly one cell of the grid is marked selected, and
\* that cell is of the month of currentMonth.
C34_SelectionInMonth ==
    [][(/\ viewMode' = "monthly"
        /\ \/ handleToday
           \/ \E n \in PadOffsets : moveSelectionBy(n)
           \/ \E day \in GridDays :
                  IsKeyOf(selectedDate', day) /\ ClickCell(day)) =>
          LET day == DateOfKey(selectedDate')
              marked == SelectSeq(buildMonthGrid(currentMonth'),
                                  LAMBDA d : d = day)
          IN  /\ IsDateString(selectedDate')
              /\ Len(marked) = 1
              /\ day.y = currentMonth'.y /\ day.m = currentMonth'.m
      ]_vars

\* loaded on 2024-04-09, monthly view: 2024-05-04, a faded cell of the
\* April grid, is selected and the period is the first of May
C34_Witness ==
    /\ GridShown /\ viewMode = "monthly"
    /\ now = [y |-> 2024, m |-> 4, d |-> 9]
    /\ currentMonth = [y |-> 2024, m |-> 5, d |-> 1]
    /\ selectedDate = <<"2","0","2","4","-","0","5","-","0","4">>
    /\ Len(SelectedIn(currentMonth, selectedDate)) = 1

-----------------------------------------------------------------------------
(* Entering the Calendar page (C35).                                       *)

\* the calendar as it starts on the day t: the events of events.json, the
\* monthly view, the selection and the period on t, the modal closed and
\* the draft { title: "", date: t, time: "09:00", duration: 60 }
StartsFresh(ev, mode, sel, period, modal, draft, t) ==
    /\ ev = eventsData
    /\ mode = "monthly"
    /\ IsKeyOf(sel, t)
    /\ period = t
    /\ ~modal
    /\ draft.title = <<>>
    /\ IsKeyOf(draft.date, t)
    /\ draft.time = <<"0", "9", ":", "0", "0">>
    /\ draft.duration = 60

\* C35: when the Calendar page is entered, at the first load and on every
\* change of activePage from another page to "Calendar", the calendar is in
\* its initial state; and the imported dataset is the same in every state.
C35_EntryResets ==
    /\ CalendarShown
    /\ StartsFresh(events, viewMode, selectedDate, currentMonth, showModal,
                   form, now)
    /\ [][(~CalendarShown /\ CalendarShown') =>
              StartsFresh(events', viewMode', selectedDate', currentMonth',
                          showModal', form', now')]_vars
    /\ [](dataset = eventsData)

\* an event was saved and the page left for Login: the imported dataset is
\* as it was, and the next step into Calendar starts from it
C35_Witness ==
    /\ activePage = "Login"
    /\ Len(events) = Len(eventsData) + 1
    /\ dataset = eventsData
    /\ ENABLED ClickSidebar("Calendar")

-----------------------------------------------------------------------------
(* The flags and the colours of the badges as events are added (C36, C37). *)

\* the dataset as input: events.json and one more record or none
InitGrow ==
    /\ activePage = "Calendar"
    /\ now = LoadDate
    /\ currentMonth = LoadDate
    /\ viewMode = "monthly"
    /\ \E extra \in {<<>>} \cup {<<ev>> : ev \in ExtraEvents} :
           dataset = eventsData \o extra
    /\ events = dataset
    /\ showModal = FALSE
    /\ selectedDate = FormatDate(LoadDate)
    /\ form = InitialForm(LoadDate)
    /\ alertShown = ""
    /\ badge = PlainBadge

SpecGrow == InitGrow /\ [][FormNext]_vars

\* the place of event i of evs among the events of its date, counted
\* from 1
PositionInDay(evs, i) ==
    Cardinality({j \in 1..i : evs[j].date = evs[i].date})

\* the props of the badge of event i of evs in the cell of its date
BadgeOf(evs, i) ==
    LET l == groupEventsByDate(evs)[evs[i].date]
    IN  CellBadges(l, detectConflicts(l))[PositionInDay(evs, i)]

\* the step keeps the calendar on the page and adds an event
Adds == CalendarShown /\ CalendarShown' /\ Len(events') = Len(events) + 1

\* C36: while the calendar is on the page, an event flagged conflicted in
\* its cell stays flagged after every step; a step that adds an event
\* leaves the flags of the events of other dates as they were and turns
\* flags of events of its own date from false to true only.
C36_FlagsGrow ==
    [][(CalendarShown /\ CalendarShown') =>
          \A i \in DOMAIN events :
              /\ i \in DOMAIN events' /\ events'[i] = events[i]
              /\ BadgeOf(events, i).conflicted
                     => BadgeOf(events', i).conflicted
              /\ (Adds /\ events'[Len(events')].date # events[i].date)
                     => BadgeOf(events', i).conflicted
                            = BadgeOf(events, i).conflicted
      ]_vars

\* an event of the loaded dataset that had no flag and has one now, an
\* event of its date being added since; the dataset's flagged events are
\* still flagged
C36_Witness ==
    /\ Len(events) = Len(dataset) + 1
    /\ \E i \in DOMAIN dataset :
          /\ ~BadgeOf(dataset, i).conflicted
          /\ BadgeOf(events, i).conflicted
          /\ events[Len(events)].date = events[i].date
    /\ \E i \in DOMAIN dataset :
          BadgeOf(dataset, i).conflicted /\ BadgeOf(events, i).conflicted

\* C37: while the calendar is on the page, the index of an event in the
\* list of its date, and with it the colour of its badge, is the same
\* after every step; an added event has the last index of the list of its
\* date.
C37_IndexStable ==
    [][(CalendarShown /\ CalendarShown') =>
          /\ \A i \in DOMAIN events :
                 /\ i \in DOMAIN events' /\ events'[i] = events[i]
                 /\ LET before == groupEventsByDate(events)[events[i].date]
                        after == groupEventsByDate(events')[events[i].date]
                        p == PositionInDay(events, i)
                    IN  /\ before[p] = events[i]
                        /\ after[p] = events[i]
                        /\ SubSeq(after, 1, Len(before)) = before
                 /\ BadgeOf(events', i).color = BadgeOf(events, i).color
          /\ Adds =>
                 LET new == events'[Len(events')]
                     after == groupEventsByDate(events')[new.date]
                 IN  /\ after[Len(after)] = new
                     /\ PositionInDay(events', Len(events')) = Len(after)
      ]_vars

\* an event added to a date that had two events or more: it is the last
\* of the date's list and has the colour of its place, the badges before it
\* have the colours they had
C37_Witness ==
    /\ Len(events) = Len(dataset) + 1
    /\ PositionInDay(events, Len(events)) >= 3
    /\ BadgeOf(events, Len(events)).color
           = Palette[PositionInDay(events, Len(events))]
    /\ \A i \in DOMAIN dataset :
          BadgeOf(events, i).color = BadgeOf(dataset, i).color

-----------------------------------------------------------------------------
(* A move of the selection and the move back (C38).                        *)

\* C38: for every selection and every offset n of the arrow pad, the move
\* by n followed by the move by -n gives the selection back, and leaves
\* the period on the first day of the month of that selection.
C38_MoveAndBack ==
    [][\A n \in {-7, -1, 1, 7} :
          moveSelectionBy(n) =>
              /\ selectedDate' = SelectionAfter(selectedDate, n)
              /\ currentMonth' = PeriodAfter(selectedDate, n)
              /\ SelectionAfter(selectedDate', 0 - n) = selectedDate
              /\ LET old == DateOfKey(selectedDate)
                 IN  PeriodAfter(selectedDate', 0 - n)
                         = [y |-> old.y, m |-> old.m, d |-> 1]
      ]_vars

\* loaded on 2025-01-31, a move and the move back made: the selection is
\* 2025-01-31 again and the period is 2025-01-01, not the 2025-01-31 it
\* was
C38_Witness ==
    /\ now = [y |-> 2025, m |-> 1, d |-> 31]
    /\ selectedDate = <<"2","0","2","5","-","0","1","-","3","1">>
    /\ currentMonth = [y |-> 2025, m |-> 1, d |-> 1]

-----------------------------------------------------------------------------
(* The tint applied twice (C39).                                           *)

\* the background of a badge of the colour c: the tint of c
Tint(c) == EventBadge([badge EXCEPT !.color = c]).style.backgroundColor

\* C39: the tint of a tint is that tint, for every colour string: a colour
\* the tint changes comes out 9 characters long, and the tint leaves a
\* string of 9 characters as it is.
C39_TintIdempotent ==
    LET c == badge.color
        t == Tint(c)
    IN  /\ Tint(t) = t
        /\ t # c => Len(t) = 9
        /\ Len(c) = 9 => t = c

\* the colour #b6e3ff of the palette: its tint #b6e3ff26 has 9 characters
\* and is its own tint
C39_Witness ==
    /\ badge.color = <<"#", "b", "6", "e", "3", "f", "f">>
    /\ Tint(badge.color) = <<"#", "b", "6", "e", "3", "f", "f", "2", "6">>
    /\ Tint(Tint(badge.color)) = Tint(badge.color)

=============================================================================
